---- MODULE Spec2Model ----
(***************************************************************************)
(* marble-gravity: the physics clock, the Integrator and the scheduler     *)
(* that advances the simulation from the winit event loop.                 *)
(*                                                                         *)
(* Instants and Durations are integer half-milliseconds (PHYSICS_DELTA_TIME *)
(* is two of them, so that a lag need not be a whole number of ticks).  A   *)
(* Body is one-dimensional with integer position,                          *)
(* velocity (length per tick, so dt = 1) and radius: the f32 3-vectors of  *)
(* the source are replaced by integers, every formula keeps the shape it   *)
(* has in the source, and divisions truncate toward zero.                  *)
(***************************************************************************)
EXTENDS Integers, Sequences, FiniteSets, TLC

\* crates/physics/src/lib.rs
\* Duration::from_millis(1) and Duration::from_secs(1), in half-milliseconds.
PHYSICS_DELTA_TIME == 2
PHYSICS_MAX_BEHIND_TIME == 2000

\* Number of bodies of the model (BODIES is 256 in the source).
BODIES == 2

\* crates/physics/src/body.rs; GAP = 0.001 and DAMPING = 0.2 in thousandths.
SYSTEM_RADIUS == 5
GRAVITY_CONSTANT == 40
GAP_MILLI == 1
STIFFNESS == 1
DAMPING_MILLI == 200

\* PHYSICS_DELTA_TIME.as_secs_f32() in the model's velocity unit.
dt == 1

\* How many times the wall clock moves in one behaviour.
MaxElapses == 2

\* The amounts by which the wall clock moves between two events.
Durations == {3 * PHYSICS_DELTA_TIME, PHYSICS_MAX_BEHIND_TIME,
              PHYSICS_MAX_BEHIND_TIME + PHYSICS_DELTA_TIME,
              5 * PHYSICS_MAX_BEHIND_TIME}


----------------------------------------------------------------------------
(* Integer helpers *)

Abs(x) == IF x < 0 THEN -x ELSE x

Sgn(x) == IF x < 0 THEN -1 ELSE IF x = 0 THEN 0 ELSE 1

\* Division truncating toward zero, b > 0.
Quot(a, b) == IF a >= 0 THEN a \div b ELSE -((-a) \div b)

\* f32::powi(3)
Cube(x) == x * x * x

\* f32::NAN: what a division of zero by zero gives (rel_pos / distance and
\* normalize() of a zero vector), and everything computed from it.
NaN == -999999

----------------------------------------------------------------------------
(* crates/physics/src/body.rs *)

\* `if other.pos == self.pos { continue; }`, were it `other` and `self` being
\* the same body in every field.
same_body_by_fields(self, other) == other = self

\* `if other.pos == self.pos { continue; // Same body }`
same_body(self, other) == other.pos = self.pos

\* The contribution of `other` to the acceleration of `self`: one iteration
\* of the loop of Body::accel_from, for a gravity constant g.
accel_term(self, other, g) ==
    IF same_body(self, other)
    THEN 0 \* Same body
    ELSE LET rel_pos == other.pos - self.pos
             distance == Abs(rel_pos)
             rel_pos_norm == Sgn(rel_pos)
             rel_vel == (other.vel - self.vel) * rel_pos_norm
             \* overlap in thousandths
             overlap == 1000 * (self.radius + other.radius - distance) + GAP_MILLI
                        - Quot(rel_vel * dt * (1000 + DAMPING_MILLI), 2)
             force_towards_other == -STIFFNESS * overlap
             spring == IF overlap > 0
                       THEN Quot(force_towards_other, 1000 * Cube(self.radius)) * rel_pos_norm
                       ELSE 0
             gravity == Quot(g * Cube(other.radius), distance * distance)
                        * rel_pos_norm
         IN \* rel_pos / distance
            IF distance = 0 THEN NaN ELSE spring + gravity

RECURSIVE accel_sum(_, _, _, _)
accel_sum(self, bodies, j, g) ==
    IF j > Len(bodies) THEN 0
    ELSE LET term == accel_term(self, bodies[j], g)
             rest == accel_sum(self, bodies, j + 1, g)
         IN IF term = NaN \/ rest = NaN THEN NaN ELSE term + rest

\* Body::accel_from
accel_from(self, bodies) == accel_sum(self, bodies, 1, GRAVITY_CONSTANT)

\* Body::new_vel
new_vel(self) ==
    IF self.pos * self.pos > SYSTEM_RADIUS * SYSTEM_RADIUS /\ self.vel * self.pos > 0
    THEN Quot(self.vel * 99, 100)
    ELSE self.vel

\* Body::step_using_vel_accel, were it to change the radius as well.
step_using_vel_accel_grows(self, vel, accel) ==
    [self EXCEPT !.pos = self.pos + vel * dt + Quot(accel * dt * dt, 2),
                 !.vel = vel + accel * dt,
                 !.radius = self.radius + 1]

\* Body::step_using_vel_accel
step_using_vel_accel(self, vel, accel) ==
    [self EXCEPT !.pos = self.pos + vel * dt + Quot(accel * dt * dt, 2),
                 !.vel = vel + accel * dt]

RECURSIVE sum_seq(_, _)
sum_seq(s, i) == IF i > Len(s) THEN 0 ELSE s[i] + sum_seq(s, i + 1)

\* Body::perform_step, were total_momentum / total_mass not taken off the
\* velocities.
perform_step_uncorrected(bodies, accels) ==
    LET vels == [i \in 1..Len(bodies) |-> new_vel(bodies[i])]
    IN [i \in 1..Len(bodies) |->
           IF i <= Len(accels)
           THEN step_using_vel_accel(bodies[i], vels[i], accels[i])
           ELSE bodies[i]]

\* Body::perform_step: zip stops at the shorter of bodies and accels.
perform_step(bodies, accels) ==
    LET vels0 == [i \in 1..Len(bodies) |-> new_vel(bodies[i])]
        total_mass == sum_seq([i \in 1..Len(bodies) |-> Cube(bodies[i].radius)], 1)
        total_momentum ==
            sum_seq([i \in 1..Len(bodies) |-> Cube(bodies[i].radius) * vels0[i]], 1)
        vels == [i \in 1..Len(bodies) |-> vels0[i] - Quot(total_momentum, total_mass)]
    IN [i \in 1..Len(bodies) |->
           IF i <= Len(accels)
           THEN step_using_vel_accel(bodies[i], vels[i], accels[i])
           ELSE bodies[i]]

----------------------------------------------------------------------------
(* crates/physics/src/lib.rs *)

\* Option::None of checked_duration_since; None orders below every Some(d).
None == -1

checked_duration_since(later, earlier) ==
    IF later >= earlier THEN later - earlier ELSE None

\* A tick that moves the timestamp by two PHYSICS_DELTA_TIME.
advance_tick_double(self) ==
    LET accels == [i \in 1..Len(self.bodies) |-> accel_from(self.bodies[i], self.bodies)]
    IN [bodies |-> perform_step(self.bodies, accels),
        timestamp |-> self.timestamp + 2 * PHYSICS_DELTA_TIME]

\* One tick of the loop body of Physics::advance_to (lines 62-69).
advance_tick(self) ==
    LET accels == [i \in 1..Len(self.bodies) |-> accel_from(self.bodies[i], self.bodies)]
    IN [bodies |-> perform_step(self.bodies, accels),
        timestamp |-> self.timestamp + PHYSICS_DELTA_TIME]

\* A catch-up arm taken already at the threshold.
far_behind_inclusive(lag) == lag >= PHYSICS_MAX_BEHIND_TIME

\* A match without the catch-up arm.
far_behind_never(lag) == FALSE

\* The catch-up arm of the match (lines 52-59): the timestamp after it, and
\* what it logs.
far_behind(lag) == lag > PHYSICS_MAX_BEHIND_TIME

catch_up_timestamp(target) == target - PHYSICS_DELTA_TIME

\* A call of Physics::advance_to in progress: its target, the ticks counted so
\* far, the time each log::error! reported, and the timestamp it was
\* entered with.
NewCall(self, target) ==
    [target |-> target, elapsed_physics_ticks |-> 0, dropped |-> <<>>,
     entry |-> self.timestamp]

\* A loop that breaks only once the target is reached or passed.
advance_breaks_when_reached(self, c) ==
    checked_duration_since(c.target, self.timestamp) <= 0

\* `break`: whether the first match arm (lag < Some(PHYSICS_DELTA_TIME)) ends
\* the loop.
advance_breaks(self, c) ==
    checked_duration_since(c.target, self.timestamp) < PHYSICS_DELTA_TIME

\* One iteration of the loop of Physics::advance_to that does not break:
\* the catch-up arm when far behind, then one tick.
advance_iter(self, c) ==
    LET lag == checked_duration_since(c.target, self.timestamp)
        new_timestamp == catch_up_timestamp(c.target)
        jumped == IF far_behind(lag)
                  THEN [self EXCEPT !.timestamp = new_timestamp]
                  ELSE self
    IN [self |-> advance_tick(jumped),
        call |-> [c EXCEPT !.elapsed_physics_ticks = @ + 1,
                           !.dropped = IF far_behind(lag)
                                       THEN Append(@, new_timestamp - self.timestamp)
                                       ELSE @]]

\* Physics::advance_to as a function: the loop run to its break, from a call
\* record c.  (The actions below take the loop one iteration at a time.)
RECURSIVE advance_loop(_, _)
advance_loop(self, c) ==
    IF advance_breaks(self, c)
    THEN [self |-> self, call |-> c]
    ELSE LET r == advance_iter(self, c) IN advance_loop(r.self, r.call)

advance_to(self, target) == advance_loop(self, NewCall(self, target))

\* PhysicsResult (elapsed_real, a wall-clock measurement, is left out).
PhysicsResult(c) == [elapsed_physics_ticks |-> c.elapsed_physics_ticks]

\* What a finished call leaves behind for inspection.
Finished(self, c) ==
    [entry |-> c.entry, target |-> c.target, exit |-> self.timestamp,
     elapsed_physics_ticks |-> c.elapsed_physics_ticks, dropped |-> c.dropped]

----------------------------------------------------------------------------
(* State *)

VARIABLES
    source,             \* "crates": the workspace; "src/run.rs", "src/main.rs":
                        \* the event loops of the single crate under src/src
    target_arch,        \* cfg(target_arch): "wasm32" or "native"
    now,                \* Instant::now()
    elapses,            \* how many times the wall clock has moved
    physics,            \* PhysicsSystem.physics: [bodies, timestamp]
    currently_running,  \* PhysicsSystem.currently_running (wasm32)
    last_begun_main_events_cleared,
    initialized,        \* run.rs: the first MainEventsCleared has been seen
    stats,              \* Stats: [tick_number]
    stack,              \* the tick loop the control thread is in, if any
    jobs,               \* wasm32: WorkerInputs posted to the worker, oldest first
    events,             \* user events sent through the proxy, oldest first
    ready,              \* what pollReady() returns
    control_flow,       \* "Poll" or "Exit"
    panicked,           \* an assert! of the control thread failed
    call,               \* the tick loop that finished last
    op,                 \* the handler that ran last
    sequence,           \* history: how many jobs were posted, how many results
                        \* were handled
    render,             \* what make_sphere_tree last handed to graphics.render
    step,               \* the call of the Integrator or of the AccelerationField
                        \* made on its own: what it was given
    builder,            \* the locals of the call of make_sphere_tree in progress
    graphics            \* Graphics: the render-time slot, the recent render
                        \* times, and the callbacks the queue holds

vars == <<source, target_arch, now, elapses, physics, currently_running,
          last_begun_main_events_cleared, initialized, stats, stack, jobs,
          events, ready, control_flow, panicked, call, op, sequence,
          render, step, builder, graphics>>

\* Body::initial samples its fields at random; the model draws them from Seeds.
Seeds == {0, 1}

initial_body(i, seed) ==
    [pos |-> 4 * i - 6 - seed * i,
     vel |-> seed - (i % 2),
     radius |-> 1 + ((i + seed) % 2),
     color |-> i]

\* Physics::initial
initial_physics(seed) ==
    [bodies |-> [i \in 1..BODIES |-> initial_body(i, seed)], timestamp |-> 0]

NoCall == [entry |-> 0, target |-> 0, exit |-> 0,
           elapsed_physics_ticks |-> 0, dropped |-> <<>>]

\* make_sphere_tree not entered.
NoBuilder == [status |-> "idle", spheres |-> <<>>, tree |-> <<>>, chain |-> <<>>,
              num_spheres |-> 0, merges |-> 0, passes |-> 0, writes |-> <<>>,
              last |-> [kind |-> "none", current |-> -1, nearest_neighbor |-> -1,
                        chain |-> <<>>],
              world_to_camera |-> [m |-> 1, t |-> 0]]

\* No call made on its own yet.
NoStep == [called |-> "none", bodies |-> <<>>, accels |-> <<>>, skipped |-> <<>>,
           g |-> 0]

\* Nothing rendered yet.
NoRender == [status |-> "none", tree |-> <<>>, world_to_camera |-> [m |-> 1, t |-> 0]]

\* Graphics::initialize, line 122: AtomicU64::new(10_000_000), and the one
\* entry of ten milliseconds fps_recent_frame_and_render_time starts with.
INITIAL_RENDER_TIME_NANOS == 10000000

\* Graphics after initialize: no frame submitted, render not entered.
InitialGraphics ==
    [this_frame_render_time_nanos_or_zero |-> INITIAL_RENDER_TIME_NANOS,
     fps_recent_frame_and_render_time |-> <<INITIAL_RENDER_TIME_NANOS>>,
     rendering |-> FALSE,
     pending |-> 0,
     frame_number |-> 0]

\* Physics::initial, for every outcome of the random samples.
InitialPhysics == {initial_physics(seed) : seed \in Seeds}

\* The state after construction, for one source and its target architectures,
\* with `spent` of the MaxElapses moves of the wall clock used up, and the
\* physics one of `states`.
InitOf(sources, spent, states) ==
    /\ source \in sources
    /\ target_arch \in (IF source = "crates" THEN {"wasm32", "native"} ELSE {"native"})
    /\ now = 0
    /\ elapses = spent
    /\ physics \in states
    /\ currently_running = FALSE
    /\ last_begun_main_events_cleared = 0
    /\ initialized = FALSE
    /\ stats = [tick_number |-> 0]
    /\ stack = <<>>
    /\ jobs = <<>>
    /\ events = <<>>
    /\ ready = FALSE
    /\ control_flow = "Poll"
    /\ panicked = FALSE
    /\ call = NoCall
    /\ op = "init"
    /\ sequence = [submitted |-> 0, applied |-> 0]
    /\ render = NoRender
    /\ step = NoStep
    /\ builder = NoBuilder
    /\ graphics = InitialGraphics

Init == InitOf({"crates"}, 0, InitialPhysics)

\* worker_inner is inside the loop of advance_to.  The loop works on the
\* worker's own clone and reads nothing else, so its iterations commute with
\* the steps of the control thread and of the wall clock: those are taken
\* before the first iteration or after the last.
WorkerLooping == jobs # <<>> /\ jobs[1].call.elapsed_physics_ticks > 0

\* The process runs: the event loop has not been told to exit and no assert!
\* has failed.
Running == control_flow = "Poll" /\ ~panicked

\* The control thread is in the event loop, free to take the next event.
Dispatching == Running /\ stack = <<>> /\ ~WorkerLooping

\* run.rs (both crates/marble-gravity/src/run.rs and src/src/run.rs), with no
\* monitor refresh rate known: Duration::from_secs(1) / 60 /
\* DESIRED_FRAME_MULTIPLE, in whole half-milliseconds.
DESIRED_FRAME_MULTIPLE == IF target_arch = "wasm32" THEN 2 ELSE 1

desired_frame_time == ((1000 * PHYSICS_DELTA_TIME) \div 60) \div DESIRED_FRAME_MULTIPLE

desired_event_loop_period == desired_frame_time \div 5

----------------------------------------------------------------------------
(* crates/marble-gravity/src/lib.rs and crates/worker/src/lib.rs *)

\* A report that counts the results, not their ticks.
report_counts_results(result, st) ==
    [st EXCEPT !.tick_number = @ + 1]

\* PhysicsSystem::report
report(result, st) ==
    [st EXCEPT !.tick_number = @ + result.elapsed_physics_ticks]

\* WorkerInput, and with it the state of the advance_to call that worker_inner
\* makes on its clone; seq numbers the jobs in the order they are posted.
WorkerInput(self, target) ==
    [physics |-> self, call |-> NewCall(self, target), seq |-> sequence.submitted + 1]

\* Worker::advance_physics_to: Err(()) when pollReady() is false, else the
\* clone is posted to the worker and Ok(()).
advance_physics_to(self, target) ==
    IF ~ready
    THEN [ok |-> FALSE, jobs |-> jobs]
    ELSE [ok |-> TRUE, jobs |-> Append(jobs, WorkerInput(self, target))]

\* start without its early return.
start_is_busy_never == FALSE

\* The early return of the wasm32 arm of PhysicsSystem::start.
start_is_busy == currently_running

\* A native arm that tells the event loop to exit when too far behind, as
\* src/src/run.rs does.
start_native_fatal(target) ==
    /\ stack' = <<NewCall(physics, target)>>
    /\ control_flow' =
         IF far_behind(checked_duration_since(target, physics.timestamp))
         THEN "Exit" ELSE control_flow
    /\ UNCHANGED <<physics, stats, call, currently_running, jobs, sequence>>

\* PhysicsSystem::start, native arm: the control thread enters
\* Physics::advance_to on the live physics.
start_native(target) ==
    /\ stack' = <<NewCall(physics, target)>>
    /\ UNCHANGED <<physics, stats, call, currently_running, jobs, control_flow,
                   sequence>>

\* A wasm32 arm that gives the flag up when it finds the worker busy.
start_wasm32_busy_clears(target) ==
    /\ IF currently_running
       THEN currently_running' = FALSE /\ UNCHANGED <<jobs, sequence>>
       ELSE LET r == advance_physics_to(physics, target)
            IN /\ jobs' = r.jobs
               /\ currently_running' = (IF r.ok THEN TRUE ELSE currently_running)
               /\ sequence' = (IF r.ok THEN [sequence EXCEPT !.submitted = @ + 1]
                               ELSE sequence)
    /\ UNCHANGED <<physics, stats, stack, call, control_flow>>

\* A wasm32 arm that runs advance_to on the control thread, as the native one.
start_wasm32_blocking(target) == start_native(target)

\* A wasm32 arm that ticks the live physics itself while the worker is busy.
start_wasm32_ticks_live(target) ==
    IF currently_running
    THEN /\ physics' = advance_tick(physics)
         /\ UNCHANGED <<currently_running, jobs, sequence, stats, stack, call,
                        control_flow>>
    ELSE LET r == advance_physics_to(physics, target)
         IN /\ jobs' = r.jobs
            /\ currently_running' = (IF r.ok THEN TRUE ELSE currently_running)
            /\ sequence' = (IF r.ok THEN [sequence EXCEPT !.submitted = @ + 1]
                            ELSE sequence)
            /\ UNCHANGED <<physics, stats, stack, call, control_flow>>

\* A wasm32 arm without the early return that posts ahead of the jobs that
\* wait.
start_wasm32_unguarded_front(target) ==
    /\ IF ~ready
       THEN UNCHANGED <<currently_running, jobs, sequence>>
       ELSE /\ jobs' = <<WorkerInput(physics, target)>> \o jobs
            /\ currently_running' = TRUE
            /\ sequence' = [sequence EXCEPT !.submitted = @ + 1]
    /\ UNCHANGED <<physics, stats, stack, call, control_flow>>

\* A wasm32 arm that sets the flag whatever advance_physics_to returns.
start_wasm32_ignores_err(target) ==
    /\ IF start_is_busy
       THEN UNCHANGED <<currently_running, jobs, sequence>>
       ELSE LET r == advance_physics_to(physics, target)
            IN /\ jobs' = r.jobs
               /\ currently_running' = TRUE
               /\ sequence' = (IF r.ok THEN [sequence EXCEPT !.submitted = @ + 1]
                               ELSE sequence)
    /\ UNCHANGED <<physics, stats, stack, call, control_flow>>

\* PhysicsSystem::start, wasm32 arm.
start_wasm32(target) ==
    /\ IF start_is_busy
       THEN UNCHANGED <<currently_running, jobs, sequence>>
       ELSE LET r == advance_physics_to(physics, target)
            IN /\ jobs' = r.jobs
               /\ currently_running' = (IF r.ok THEN TRUE ELSE currently_running)
               /\ sequence' = (IF r.ok THEN [sequence EXCEPT !.submitted = @ + 1]
                               ELSE sequence)
    /\ UNCHANGED <<physics, stats, stack, call, control_flow>>

\* PhysicsSystem::start
start(target) ==
    \/ target_arch = "wasm32" /\ start_wasm32(target)
    \/ target_arch = "native" /\ start_native(target)

\* handle_event that keeps the old physics.
handle_event_keeps_physics(event) ==
    IF ~currently_running
    THEN /\ panicked' = TRUE
         /\ UNCHANGED <<physics, currently_running, stats, jobs, sequence>>
    ELSE /\ physics' = physics
         /\ currently_running' = FALSE
         /\ stats' = report(event.result, stats)
         /\ sequence' = [sequence EXCEPT !.applied = @ + 1]
         /\ UNCHANGED <<panicked, jobs>>

\* handle_event that submits again when the result is still behind the
\* instant last asked for.
handle_event_resubmits(event) ==
    IF ~currently_running
    THEN /\ panicked' = TRUE
         /\ UNCHANGED <<physics, currently_running, stats, jobs, sequence>>
    ELSE /\ physics' = event.physics
         /\ stats' = report(event.result, stats)
         /\ IF event.physics.timestamp + PHYSICS_DELTA_TIME <= last_begun_main_events_cleared
            THEN /\ currently_running' = TRUE
                 /\ jobs' = Append(jobs, WorkerInput(event.physics,
                                                     last_begun_main_events_cleared))
                 /\ sequence' = [sequence EXCEPT !.applied = @ + 1,
                                                 !.submitted = @ + 1]
            ELSE /\ currently_running' = FALSE /\ jobs' = jobs
                 /\ sequence' = [sequence EXCEPT !.applied = @ + 1]
         /\ UNCHANGED panicked

\* PhysicsSystem::handle_event
handle_event(event) ==
    IF ~currently_running
    THEN /\ panicked' = TRUE
         /\ UNCHANGED <<physics, currently_running, stats, jobs, sequence>>
    ELSE /\ physics' = event.physics
         /\ currently_running' = FALSE
         /\ stats' = report(event.result, stats)
         /\ sequence' = [sequence EXCEPT !.applied = @ + 1]
         /\ UNCHANGED <<panicked, jobs>>

----------------------------------------------------------------------------
(* crates/marble-gravity/src/run.rs: the event loop *)

\* Event::MainEventsCleared, too early: set_wait_until and return.
MainEventsClearedWait ==
    /\ Dispatching
    /\ source = "crates"
    /\ now < last_begun_main_events_cleared + desired_event_loop_period
    /\ initialized' = TRUE
    /\ op' = "wait"
    /\ UNCHANGED <<graphics, builder, step, render, sequence, source, target_arch, now, elapses, physics, currently_running,
                   last_begun_main_events_cleared, stats, stack, jobs, events,
                   ready, control_flow, panicked, call>>

\* Event::MainEventsCleared, otherwise: physics.start(now, ..).
MainEventsClearedStart ==
    /\ Dispatching
    /\ source = "crates"
    /\ ~(now < last_begun_main_events_cleared + desired_event_loop_period)
    /\ initialized' = TRUE
    /\ last_begun_main_events_cleared' = now
    /\ start(now)
    /\ op' = "start"
    /\ UNCHANGED <<graphics, builder, step, render, source, target_arch, now, elapses, events, ready, panicked>>

\* native: one iteration of the loop of advance_to, inside start.
NativeAdvanceTick ==
    /\ Running
    /\ source = "crates"
    /\ stack # <<>>
    /\ ~advance_breaks(physics, stack[1])
    /\ LET r == advance_iter(physics, stack[1])
       IN physics' = r.self /\ stack' = <<r.call>>
    /\ UNCHANGED <<graphics, builder, step, render, sequence, source, target_arch, now, elapses, currently_running,
                   last_begun_main_events_cleared, initialized, stats, jobs,
                   events, ready, control_flow, panicked, call, op>>

\* native: advance_to breaks and returns, start reports the result.
NativeAdvanceReturn ==
    /\ Running
    /\ source = "crates"
    /\ stack # <<>>
    /\ advance_breaks(physics, stack[1])
    /\ stats' = report(PhysicsResult(stack[1]), stats)
    /\ call' = Finished(physics, stack[1])
    /\ stack' = <<>>
    /\ UNCHANGED <<graphics, builder, step, render, sequence, source, target_arch, now, elapses, physics, currently_running,
                   last_begun_main_events_cleared, initialized, jobs, events,
                   ready, control_flow, panicked, op>>

\* wasm32: worker_inner, one iteration of advance_to on the clone.
WorkerInnerTick ==
    /\ Running
    /\ jobs # <<>>
    /\ ~advance_breaks(jobs[1].physics, jobs[1].call)
    /\ LET r == advance_iter(jobs[1].physics, jobs[1].call)
       IN jobs' = <<[jobs[1] EXCEPT !.physics = r.self, !.call = r.call]>> \o Tail(jobs)
    /\ UNCHANGED <<graphics, builder, step, render, sequence, source, target_arch, now, elapses, physics, currently_running,
                   last_begun_main_events_cleared, initialized, stats, stack,
                   events, ready, control_flow, panicked, call, op>>

\* A worker whose result is lost.
WorkerInnerReturn_loses_result ==
    /\ Running
    /\ jobs # <<>>
    /\ advance_breaks(jobs[1].physics, jobs[1].call)
    /\ jobs' = Tail(jobs)
    /\ UNCHANGED <<graphics, builder, step, render, sequence, source, target_arch, now, elapses, physics, currently_running,
                   last_begun_main_events_cleared, initialized, stats, stack,
                   events, ready, control_flow, panicked, call, op>>

\* A future that sends its WorkerOutput twice.
WorkerInnerReturn_sends_twice ==
    /\ Running
    /\ jobs # <<>>
    /\ advance_breaks(jobs[1].physics, jobs[1].call)
    /\ LET output == [physics |-> jobs[1].physics,
                      result |-> PhysicsResult(jobs[1].call),
                      seq |-> jobs[1].seq]
       IN events' = Append(Append(events, output), output)
    /\ call' = Finished(jobs[1].physics, jobs[1].call)
    /\ jobs' = Tail(jobs)
    /\ UNCHANGED <<graphics, builder, step, render, sequence, source, target_arch, now, elapses, physics, currently_running,
                   last_begun_main_events_cleared, initialized, stats, stack,
                   ready, control_flow, panicked, op>>

\* wasm32: worker_inner returns its WorkerOutput; the promise resolves and the
\* future spawned by advance_physics_to sends it through the proxy.
WorkerInnerReturn ==
    /\ Running
    /\ jobs # <<>>
    /\ advance_breaks(jobs[1].physics, jobs[1].call)
    /\ events' = Append(events, [physics |-> jobs[1].physics,
                                 result |-> PhysicsResult(jobs[1].call),
                                 seq |-> jobs[1].seq])
    /\ call' = Finished(jobs[1].physics, jobs[1].call)
    /\ jobs' = Tail(jobs)
    /\ UNCHANGED <<graphics, builder, step, render, sequence, source, target_arch, now, elapses, physics, currently_running,
                   last_begun_main_events_cleared, initialized, stats, stack,
                   ready, control_flow, panicked, op>>

\* Event::UserEvent
UserEvent ==
    /\ Dispatching
    /\ events # <<>>
    /\ IF target_arch = "wasm32"
       THEN handle_event(Head(events))
       ELSE panicked' = TRUE
            /\ UNCHANGED <<physics, currently_running, stats, jobs, sequence>>
    /\ events' = Tail(events)
    /\ op' = "handle_event"
    /\ UNCHANGED <<graphics, builder, step, render, source, target_arch, now, elapses,
                   last_begun_main_events_cleared, initialized, stack, ready,
                   control_flow, call>>

\* Event::RedrawRequested: the sphere tree is built from physics.bodies() and
\* rendered; nothing of the physics system changes.
RedrawRequested ==
    /\ Dispatching
    /\ op' = "redraw"
    /\ UNCHANGED <<graphics, builder, step, render, sequence, source, target_arch, now, elapses, physics, currently_running,
                   last_begun_main_events_cleared, initialized, stats, stack,
                   jobs, events, ready, control_flow, panicked, call>>

\* WindowEvent::CloseRequested
CloseRequested ==
    /\ Dispatching
    /\ control_flow' = "Exit"
    /\ op' = "close"
    /\ UNCHANGED <<graphics, builder, step, render, sequence, source, target_arch, now, elapses, physics, currently_running,
                   last_begun_main_events_cleared, initialized, stats, stack,
                   jobs, events, ready, panicked, call>>

\* The JavaScript worker finishes loading: pollReady() returns true from now on.
WorkerReady ==
    /\ Running /\ ~WorkerLooping
    /\ target_arch = "wasm32"
    /\ ~ready
    /\ ready' = TRUE
    /\ UNCHANGED <<graphics, builder, step, render, sequence, source, target_arch, now, elapses, physics, currently_running,
                   last_begun_main_events_cleared, initialized, stats, stack,
                   jobs, events, control_flow, panicked, call, op>>

\* The wall clock moves between two events.  (Neither the loop of advance_to
\* nor the one of src/run.rs reads it.)
Elapse ==
    /\ Running /\ ~WorkerLooping
    /\ stack = <<>>
    /\ elapses < MaxElapses
    /\ \E d \in Durations : now' = now + d
    /\ elapses' = elapses + 1
    /\ UNCHANGED <<graphics, builder, step, render, sequence, source, target_arch, physics, currently_running,
                   last_begun_main_events_cleared, initialized, stats, stack,
                   jobs, events, ready, control_flow, panicked, call, op>>

Next ==
    \/ MainEventsClearedWait
    \/ MainEventsClearedStart
    \/ NativeAdvanceTick
    \/ NativeAdvanceReturn
    \/ WorkerInnerTick
    \/ WorkerInnerReturn
    \/ UserEvent
    \/ RedrawRequested
    \/ CloseRequested
    \/ WorkerReady
    \/ Elapse

Spec == Init /\ [][Next]_vars

\* The behaviours checked for liveness: the wall clock moves once.
InitFair == InitOf({"crates"}, MaxElapses - 1, InitialPhysics)

\* The worker thread runs, the promise resolves, and winit delivers the user
\* events it is sent.
FairSpec ==
    /\ InitFair
    /\ [][Next]_vars
    /\ WF_vars(WorkerInnerTick)
    /\ WF_vars(WorkerInnerReturn)
    /\ WF_vars(UserEvent)

----------------------------------------------------------------------------
(* src/src: the single crate that preceded the workspace.  Its two event   *)
(* loops, src/src/run.rs and src/src/main.rs, tick the bodies themselves.  *)

\* src/src/physics.rs
LEGACY_GRAVITY_CONSTANT == 80
LEGACY_SYSTEM_RADIUS == 10

\* src/src/main.rs
MAX_BEHIND == 2000

\* src/src/main.rs reads Instant::now() after every update: what one update
\* costs (nothing, or two milliseconds), drawn once for each
\* MainEventsCleared.
TickCosts == {0, 2 * PHYSICS_DELTA_TIME}

\* Body::compute_vel_accel of src/src/physics.rs
legacy_compute_vel_accel(self, others) ==
    [vel |-> IF self.pos * self.pos > LEGACY_SYSTEM_RADIUS * LEGACY_SYSTEM_RADIUS
                /\ self.vel * self.pos > 0
             THEN Quot(self.vel * (-99), 100)
             ELSE self.vel,
     accel |-> accel_sum(self, others, 1, LEGACY_GRAVITY_CONSTANT)]

\* Body::perform_step of src/src/physics.rs
legacy_perform_step(bodies) ==
    LET vels_accels == [i \in 1..Len(bodies) |-> legacy_compute_vel_accel(bodies[i], bodies)]
        total_mass == sum_seq([i \in 1..Len(bodies) |-> Cube(bodies[i].radius)], 1)
        total_momentum ==
            sum_seq([i \in 1..Len(bodies) |-> Cube(bodies[i].radius) * vels_accels[i].vel], 1)
    IN [i \in 1..Len(bodies) |->
           step_using_vel_accel(bodies[i],
                                vels_accels[i].vel - Quot(total_momentum, total_mass),
                                vels_accels[i].accel)]

\* The body of both tick loops: the bodies are updated and the timestamp
\* moves by PHYSICS_DELTA_TIME.
legacy_tick(self) ==
    [bodies |-> legacy_perform_step(self.bodies),
     timestamp |-> self.timestamp + PHYSICS_DELTA_TIME]

\* src/src/run.rs: `if !initialized { physics_timestamp = now; .. }`
legacy_run_timestamp == IF initialized THEN physics.timestamp ELSE now

\* src/src/run.rs, Event::MainEventsCleared, too early.
LegacyRunWait ==
    /\ Dispatching
    /\ source = "src/run.rs"
    /\ now < last_begun_main_events_cleared + desired_frame_time
    /\ physics' = [physics EXCEPT !.timestamp = legacy_run_timestamp]
    /\ initialized' = TRUE
    /\ op' = "wait"
    /\ UNCHANGED <<graphics, builder, step, render, sequence, source, target_arch, now, elapses, currently_running,
                   last_begun_main_events_cleared, stats, stack, jobs, events,
                   ready, control_flow, panicked, call>>

\* src/src/run.rs, Event::MainEventsCleared, lines 124-134: set_exit when too
\* far behind; the handler goes on into the tick loop either way.
LegacyRunBegin ==
    /\ Dispatching
    /\ source = "src/run.rs"
    /\ ~(now < last_begun_main_events_cleared + desired_frame_time)
    /\ physics' = [physics EXCEPT !.timestamp = legacy_run_timestamp]
    /\ initialized' = TRUE
    /\ last_begun_main_events_cleared' = now
    /\ control_flow' =
         IF checked_duration_since(now, legacy_run_timestamp) > PHYSICS_MAX_BEHIND_TIME
         THEN "Exit" ELSE control_flow
    /\ stack' = <<[target |-> now, elapsed_physics_ticks |-> 0]>>
    /\ op' = "start"
    /\ UNCHANGED <<graphics, builder, step, render, sequence, source, target_arch, now, elapses, currently_running, stats,
                   jobs, events, ready, panicked, call>>

\* src/src/run.rs, lines 135-138: one iteration of the while loop.
LegacyRunTick ==
    /\ source = "src/run.rs"
    /\ stack # <<>>
    /\ checked_duration_since(stack[1].target, physics.timestamp) > PHYSICS_DELTA_TIME
    /\ physics' = legacy_tick(physics)
    /\ stack' = <<[stack[1] EXCEPT !.elapsed_physics_ticks = @ + 1]>>
    /\ UNCHANGED <<graphics, builder, step, render, sequence, source, target_arch, now, elapses, currently_running,
                   last_begun_main_events_cleared, initialized, stats, jobs,
                   events, ready, control_flow, panicked, call, op>>

\* src/src/run.rs: the while loop ends, window.request_redraw().
LegacyRunReturn ==
    /\ source = "src/run.rs"
    /\ stack # <<>>
    /\ ~(checked_duration_since(stack[1].target, physics.timestamp) > PHYSICS_DELTA_TIME)
    /\ stack' = <<>>
    /\ UNCHANGED <<graphics, builder, step, render, sequence, source, target_arch, now, elapses, physics, currently_running,
                   last_begun_main_events_cleared, initialized, stats, jobs,
                   events, ready, control_flow, panicked, call, op>>

\* src/src/main.rs, Event::MainEventsCleared, lines 72-73.
LegacyMainBegin ==
    /\ Dispatching
    /\ source = "src/main.rs"
    /\ \E cost \in TickCosts :
         stack' = <<[behind |-> checked_duration_since(now, physics.timestamp),
                     cost |-> cost, elapsed_physics_ticks |-> 0]>>
    /\ initialized' = TRUE
    /\ op' = "start"
    /\ UNCHANGED <<graphics, builder, step, render, sequence, source, target_arch, now, elapses, physics, currently_running,
                   last_begun_main_events_cleared, stats, jobs, events, ready,
                   control_flow, panicked, call>>

\* src/src/main.rs, lines 75-87: one iteration of the while loop.
LegacyMainTick ==
    /\ source = "src/main.rs"
    /\ stack # <<>>
    /\ stack[1].behind > PHYSICS_DELTA_TIME
    /\ now' = now + stack[1].cost
    /\ physics' = legacy_tick(physics)
    /\ LET new_behind == checked_duration_since(now', physics'.timestamp)
       IN IF new_behind > MAX_BEHIND /\ new_behind > stack[1].behind
          THEN control_flow' = "Exit" /\ stack' = <<>>
          ELSE /\ control_flow' = control_flow
               /\ stack' = <<[stack[1] EXCEPT !.behind = new_behind,
                                              !.elapsed_physics_ticks = @ + 1]>>
    /\ UNCHANGED <<graphics, builder, step, render, sequence, source, target_arch, elapses, currently_running,
                   last_begun_main_events_cleared, initialized, stats, jobs,
                   events, ready, panicked, call, op>>

\* src/src/main.rs: the while loop ends, window.request_redraw().
LegacyMainReturn ==
    /\ source = "src/main.rs"
    /\ stack # <<>>
    /\ ~(stack[1].behind > PHYSICS_DELTA_TIME)
    /\ stack' = <<>>
    /\ UNCHANGED <<graphics, builder, step, render, sequence, source, target_arch, now, elapses, physics, currently_running,
                   last_begun_main_events_cleared, initialized, stats, jobs,
                   events, ready, control_flow, panicked, call, op>>

InitLegacy == InitOf({"crates", "src/run.rs", "src/main.rs"}, 0, InitialPhysics)

NextLegacy ==
    \/ MainEventsClearedWait
    \/ MainEventsClearedStart
    \/ NativeAdvanceTick
    \/ NativeAdvanceReturn
    \/ WorkerInnerTick
    \/ WorkerInnerReturn
    \/ UserEvent
    \/ RedrawRequested
    \/ CloseRequested
    \/ WorkerReady
    \/ Elapse
    \/ LegacyRunWait
    \/ LegacyRunBegin
    \/ LegacyRunTick
    \/ LegacyRunReturn
    \/ LegacyMainBegin
    \/ LegacyMainTick
    \/ LegacyMainReturn

\* The workspace and the single crate side by side.
SpecLegacy == InitLegacy /\ [][NextLegacy]_vars

----------------------------------------------------------------------------
(* src/src/spheretree.rs.  A Sphere has a one-dimensional integer centre   *)
(* and an integer radius, in units of 1/unit of the bodies' length, unit a  *)
(* power of two, so that the halvings of Sphere::branch are exact.          *)

\* Option<Sphere>
Some(sphere) == [is_some |-> TRUE, value |-> sphere]

\* Option::take leaves None behind.
Taken(option) == [option EXCEPT !.is_some = FALSE]

\* Sphere::leaf; world_to_camera is [m, t]: the centre goes to m * pos + t
\* (the homogeneous w is 1).
leaf(body, world_to_camera, unit) ==
    [pos |-> unit * (world_to_camera.m * body.pos + world_to_camera.t),
     radius |-> unit * body.radius,
     left |-> -1,
     right |-> -1,
     color |-> body.color]

\* Sphere::placeholder
placeholder == [pos |-> 0, radius |-> 0, left |-> 0, right |-> 0, color |-> 0]

\* (a.pos - b.pos).magnitude()
magnitude_between(a, b) ==
    IF a.pos = NaN \/ b.pos = NaN THEN NaN ELSE Abs(a.pos - b.pos)

\* Sphere::branch, were the children counted from one.
branch_one_based(a_index, b_index, spheres) ==
    LET a == spheres[a_index + 1].value
        b == spheres[b_index + 1].value
        distance == magnitude_between(b, a)
        rel_pos_norm == IF distance = NaN \/ distance = 0 THEN NaN
                        ELSE Sgn(b.pos - a.pos)
        joined_midpoint ==
            IF rel_pos_norm = NaN \/ a.radius = NaN \/ b.radius = NaN THEN NaN
            ELSE ((a.pos - rel_pos_norm * a.radius)
                  + (b.pos + rel_pos_norm * b.radius)) \div 2
        joined_radius ==
            IF distance = NaN \/ a.radius = NaN \/ b.radius = NaN THEN NaN
            ELSE (distance + a.radius + b.radius) \div 2
    IN [pos |-> joined_midpoint,
        radius |-> joined_radius,
        left |-> a_index + 1,
        right |-> b_index + 1,
        color |-> 0]

\* Sphere::branch; spheres[i + 1] is the source's spheres[i].
branch(a_index, b_index, spheres) ==
    LET a == spheres[a_index + 1].value
        b == spheres[b_index + 1].value
        distance == magnitude_between(b, a)
        \* normalize() divides by the magnitude: NaN when it is zero
        rel_pos_norm == IF distance = NaN \/ distance = 0 THEN NaN
                        ELSE Sgn(b.pos - a.pos)
        joined_midpoint ==
            IF rel_pos_norm = NaN \/ a.radius = NaN \/ b.radius = NaN THEN NaN
            ELSE ((a.pos - rel_pos_norm * a.radius)
                  + (b.pos + rel_pos_norm * b.radius)) \div 2
        joined_radius ==
            IF distance = NaN \/ a.radius = NaN \/ b.radius = NaN THEN NaN
            ELSE (distance + a.radius + b.radius) \div 2
    IN [pos |-> joined_midpoint,
        radius |-> joined_radius,
        left |-> a_index,
        right |-> b_index,
        color |-> 0]

\* measure, times eight (the division by two of joined_radius is left to the
\* comparison).
measure(a, b) ==
    LET d == magnitude_between(a, b)
    IN IF d = NaN \/ a.radius = NaN \/ b.radius = NaN THEN NaN
       ELSE Cube(d + a.radius + b.radius) - 8 * Cube(a.radius) - 8 * Cube(b.radius)

\* spheres.iter().enumerate().rev().find(|(_, s)| s.is_some()).unwrap().0
last_some(spheres) ==
    CHOOSE i \in 0..(Len(spheres) - 1) :
        /\ spheres[i + 1].is_some
        /\ \A j \in (i + 1)..(Len(spheres) - 1) : ~spheres[j + 1].is_some

\* The inner `loop` (lines 18-36): the chain once its top is a sphere that
\* is still there.
RECURSIVE settle_chain(_, _)
settle_chain(chain, spheres) ==
    IF chain = <<>>
    THEN <<last_some(spheres)>>
    ELSE IF spheres[chain[Len(chain)] + 1].is_some
    THEN chain
    ELSE settle_chain(SubSeq(chain, 1, Len(chain) - 1), spheres)

\* The spheres `current` is measured against (line 41).
neighbors(current, spheres) ==
    {i \in 0..(Len(spheres) - 1) : i # current /\ spheres[i + 1].is_some}

cost(current, i, spheres) == measure(spheres[current + 1].value, spheres[i + 1].value)

\* a.partial_cmp(b).unwrap() is called, on a cost that is NaN, as soon as
\* min_by has two elements to compare.
min_by_panics(current, spheres) ==
    /\ Cardinality(neighbors(current, spheres)) >= 2
    /\ \E i \in neighbors(current, spheres) : cost(current, i, spheres) = NaN

\* min_by, were it to keep the last of the candidates of least cost.
nearest_neighbor_last(current, spheres) ==
    CHOOSE i \in neighbors(current, spheres) :
        \A j \in neighbors(current, spheres) :
            \/ j = i
            \/ cost(current, i, spheres) < cost(current, j, spheres)
            \/ /\ cost(current, i, spheres) = cost(current, j, spheres)
               /\ i > j

\* min_by over (cost, index): the least cost, and among equal costs the least
\* index.
nearest_neighbor(current, spheres) ==
    CHOOSE i \in neighbors(current, spheres) :
        \A j \in neighbors(current, spheres) :
            \/ j = i
            \/ cost(current, i, spheres) < cost(current, j, spheres)
            \/ /\ cost(current, i, spheres) = cost(current, j, spheres)
               /\ i < j

\* No pass through the loop made yet.
NoIter == [kind |-> "none", current |-> -1, nearest_neighbor |-> -1, chain |-> <<>>]

\* One pass through the body of `while num_spheres > 1` (lines 18-58), from
\* the locals st = [spheres, tree, chain, num_spheres]; `passes` and `merges`
\* count the passes and the joins, `writes` how often each slot of tree has
\* been assigned, and `last` keeps what the pass found: the chain once
\* settled, its top and the nearest neighbour of the top.
tree_iter(st) ==
    LET chain == settle_chain(st.chain, st.spheres)
        current == chain[Len(chain)]
    IN IF min_by_panics(current, st.spheres)
       THEN [st EXCEPT !.status = "panicked",
                       !.passes = st.passes + 1,
                       !.chain = chain,
                       !.last = [kind |-> "panic", current |-> current,
                                 nearest_neighbor |-> -1, chain |-> chain]]
       ELSE LET nn == nearest_neighbor(current, st.spheres)
            IN IF Len(chain) >= 2 /\ nn = chain[Len(chain) - 1]
               THEN \* Join a pair of mutually closest neighbors
                    LET last == chain[Len(chain) - 1]
                        pushed == Append(st.spheres,
                                         Some(branch(current, last, st.spheres)))
                    IN [st EXCEPT
                          !.spheres = [pushed EXCEPT ![current + 1] = Taken(@),
                                                     ![last + 1] = Taken(@)],
                          !.tree = [st.tree EXCEPT
                                      ![current + 1] = st.spheres[current + 1].value,
                                      ![last + 1] = st.spheres[last + 1].value],
                          !.chain = SubSeq(chain, 1, Len(chain) - 2),
                          !.writes = [st.writes EXCEPT ![current + 1] = @ + 1,
                                                       ![last + 1] = @ + 1],
                          !.num_spheres = st.num_spheres - 1,
                          !.merges = st.merges + 1,
                          !.passes = st.passes + 1,
                          !.last = [kind |-> "merge", current |-> current,
                                    nearest_neighbor |-> nn, chain |-> chain]]
               ELSE \* Found closer pair, pushing to stack
                    [st EXCEPT !.chain = Append(chain, nn),
                               !.passes = st.passes + 1,
                               !.last = [kind |-> "push", current |-> current,
                                         nearest_neighbor |-> nn, chain |-> chain]]

\* Line 60, were the root not pushed.
tree_return_without_root(st) ==
    [st EXCEPT !.status = "returned"]

\* Line 60: the root is pushed, and the tree returned.
tree_return(st) ==
    [st EXCEPT !.status = "returned",
               !.tree = [st.tree EXCEPT ![Len(st.tree)] = st.spheres[Len(st.spheres)].value],
               !.writes = [st.writes EXCEPT ![Len(st.tree)] = @ + 1]]

\* The `while num_spheres > 1` loop and the push of the root.
RECURSIVE tree_loop(_)
tree_loop(st) ==
    IF ~(st.num_spheres > 1)
    THEN [status |-> "returned", tree |-> tree_return(st).tree]
    ELSE LET next == tree_iter(st)
         IN IF next.status = "panicked"
            THEN [status |-> "panicked", tree |-> <<>>]
            ELSE tree_loop(next)

\* Lengths of the tree are counted in this fraction of the bodies' unit: a
\* branch halves (lines 99, 100), and a branch is at most Len(bodies) - 1
\* branches above the leaves, so that every halving is exact.
halvings(bodies) == 2 ^ (Len(bodies) - 1)

\* Lines 6-16: the locals of make_sphere_tree before the loop.
tree_locals(bodies, world_to_camera) ==
    LET unit == halvings(bodies)
        spheres == [i \in 1..Len(bodies) |-> Some(leaf(bodies[i], world_to_camera, unit))]
        tot_nodes == 2 * Len(spheres) - 1
    IN [status |-> "looping",
        spheres |-> spheres,
        tree |-> [i \in 1..tot_nodes |-> placeholder],
        chain |-> <<>>,
        num_spheres |-> Len(spheres),
        merges |-> 0,
        passes |-> 0,
        writes |-> [i \in 1..tot_nodes |-> 0],
        last |-> NoIter]

\* make_sphere_tree, for bodies # <<>>
make_sphere_tree(bodies, world_to_camera) ==
    tree_loop(tree_locals(bodies, world_to_camera))

\* How many bodies the trees are built from, at most.
MaxLeaves == 4

\* The bodies the trees are built from: any centres and radii out of a few,
\* spheres touching, overlapping, one inside the other and with the same
\* centre; the colour tells the bodies apart.
LeafPositions == {0, 1, 2, 4}

LeafRadii == {2, 8}

LeafLists ==
    UNION {{[i \in 1..n |-> [pos |-> f[i][1], vel |-> 0, radius |-> f[i][2], color |-> i]] :
               f \in [1..n -> LeafPositions \X LeafRadii]} : n \in 1..MaxLeaves}

\* camera.world_to_camera(): the view from the origin and a mirrored, shifted
\* one.
Cameras == {[m |-> 1, t |-> 0], [m |-> -1, t |-> 3]}

\* src/src/run.rs, Event::RedrawRequested:
\* graphics.render(make_sphere_tree(&bodies, camera.world_to_camera()), ..)
RedrawTree ==
    /\ Dispatching
    /\ source = "src/run.rs"
    /\ \E world_to_camera \in Cameras :
         render' = [status |-> make_sphere_tree(physics.bodies, world_to_camera).status,
                    tree |-> make_sphere_tree(physics.bodies, world_to_camera).tree,
                    world_to_camera |-> world_to_camera]
    /\ op' = "redraw"
    /\ UNCHANGED <<graphics, builder, step, sequence, source, target_arch, now, elapses, physics,
                   currently_running, last_begun_main_events_cleared, initialized,
                   stats, stack, jobs, events, ready, control_flow, panicked, call>>

\* The event loop of src/src/run.rs redrawing, for any bodies.
InitTree ==
    InitOf({"src/run.rs"}, MaxElapses,
           {[bodies |-> leaves, timestamp |-> 0] : leaves \in LeafLists})

NextTree == RedrawTree

SpecTree == InitTree /\ [][NextTree]_vars

\* make_sphere_tree entered from Event::RedrawRequested (lines 6-16).
ChainBegin ==
    /\ Dispatching
    /\ source = "src/run.rs"
    /\ builder.status = "idle"
    /\ render.status = "none"
    /\ \E world_to_camera \in Cameras :
         builder' = [status |-> "looping",
                     spheres |-> tree_locals(physics.bodies, world_to_camera).spheres,
                     tree |-> tree_locals(physics.bodies, world_to_camera).tree,
                     chain |-> <<>>,
                     num_spheres |-> Len(physics.bodies),
                     merges |-> 0,
                     passes |-> 0,
                     writes |-> tree_locals(physics.bodies, world_to_camera).writes,
                     last |-> NoIter,
                     world_to_camera |-> world_to_camera]
    /\ op' = "redraw"
    /\ UNCHANGED <<graphics, render, step, sequence, source, target_arch, now, elapses, physics,
                   currently_running, last_begun_main_events_cleared, initialized,
                   stats, stack, jobs, events, ready, control_flow, panicked, call>>

\* One pass through the `while num_spheres > 1` loop; the unwrap of line 43
\* may panic.
ChainIter ==
    /\ builder.status = "looping"
    /\ builder.num_spheres > 1
    /\ builder' = tree_iter(builder)
    /\ render' = IF builder'.status = "panicked"
                 THEN [status |-> "panicked", tree |-> <<>>,
                       world_to_camera |-> builder.world_to_camera]
                 ELSE render
    /\ UNCHANGED <<graphics, op, step, sequence, source, target_arch, now, elapses, physics,
                   currently_running, last_begun_main_events_cleared, initialized,
                   stats, stack, jobs, events, ready, control_flow, panicked, call>>

\* The loop is left, the root pushed and the tree handed to graphics.render.
ChainReturn ==
    /\ builder.status = "looping"
    /\ ~(builder.num_spheres > 1)
    /\ builder' = tree_return(builder)
    /\ render' = [status |-> "returned", tree |-> builder'.tree,
                  world_to_camera |-> builder.world_to_camera]
    /\ UNCHANGED <<graphics, op, step, sequence, source, target_arch, now, elapses, physics,
                   currently_running, last_begun_main_events_cleared, initialized,
                   stats, stack, jobs, events, ready, control_flow, panicked, call>>

\* The same redraw with make_sphere_tree taken one pass of its loop at a
\* time.
NextChain ==
    \/ ChainBegin
    \/ ChainIter
    \/ ChainReturn

SpecChain == InitTree /\ [][NextChain]_vars

----------------------------------------------------------------------------
(* The Integrator and the AccelerationField called on their own, once, on  *)
(* any bodies.                                                             *)

\* How many bodies a call is given, at most.
MaxStepBodies == 3

\* Centres inside and outside SYSTEM_RADIUS, overlapping and apart.
StepPositions == {-6, 0, 1}

\* At rest, and fast enough for the momentum to be far above any rounding.
StepVelocities == {-90, 0, 90}

StepRadii == {1, 2}

StepBodies ==
    UNION {{[i \in 1..n |-> [pos |-> f[i][1], vel |-> f[i][2], radius |-> f[i][3],
                             color |-> i]] :
               f \in [1..n -> StepPositions \X StepVelocities \X StepRadii]} :
           n \in 1..MaxStepBodies}

\* accels: Vec<Vector3<f32>> of any length, also other than the bodies'.
StepAccels == UNION {[1..n -> {0, 3}] : n \in 0..MaxStepBodies}

\* GRAVITY_CONSTANT of crates/nbody/src/lib.rs (Accel::new)
NBODY_GRAVITY_CONSTANT == 80

\* What the loop over `others` does with each of them, for every body.
skipped_of(bodies) ==
    [i \in 1..Len(bodies) |-> [j \in 1..Len(bodies) |-> same_body(bodies[i], bodies[j])]]

\* The tick of Physics::advance_to (lines 62-69) on its own.
StepTick ==
    /\ step.called = "none"
    /\ step' = [called |-> "advance_tick",
                bodies |-> physics.bodies,
                accels |-> [i \in 1..Len(physics.bodies) |->
                               accel_from(physics.bodies[i], physics.bodies)],
                skipped |-> skipped_of(physics.bodies),
                g |-> GRAVITY_CONSTANT]
    /\ physics' = advance_tick(physics)
    /\ op' = "advance_tick"
    /\ UNCHANGED <<graphics, builder, render, sequence, source, target_arch, now, elapses,
                   currently_running, last_begun_main_events_cleared, initialized,
                   stats, stack, jobs, events, ready, control_flow, panicked, call>>

\* Body::perform_step(&mut bodies, accels), for any accels.  Nothing in it
\* asserts or panics.
StepWith ==
    /\ step.called = "none"
    /\ \E accels \in StepAccels :
         /\ step' = [called |-> "perform_step",
                     bodies |-> physics.bodies,
                     accels |-> accels,
                     skipped |-> <<>>,
                     g |-> 0]
         /\ physics' = [physics EXCEPT !.bodies = perform_step(physics.bodies, accels)]
    /\ op' = "perform_step"
    /\ UNCHANGED <<graphics, builder, render, sequence, source, target_arch, now, elapses,
                   currently_running, last_begun_main_events_cleared, initialized,
                   stats, stack, jobs, events, ready, control_flow, panicked, call>>

\* The AccelerationField: bodies.iter().map(|b| b.accel_from(&bodies)) of
\* crates/physics and bodies.par_iter().map(|b| Accel::new(b, bodies)) of
\* crates/nbody, which differ in the gravity constant.  bodies is a shared
\* reference.
ComputeAccels ==
    /\ step.called = "none"
    /\ \E g \in {GRAVITY_CONSTANT, NBODY_GRAVITY_CONSTANT} :
         step' = [called |-> "accels",
                  bodies |-> physics.bodies,
                  accels |-> [i \in 1..Len(physics.bodies) |->
                                 accel_sum(physics.bodies[i], physics.bodies, 1, g)],
                  skipped |-> skipped_of(physics.bodies),
                  g |-> g]
    /\ op' = "accels"
    /\ UNCHANGED <<graphics, builder, render, sequence, source, target_arch, now, elapses, physics,
                   currently_running, last_begun_main_events_cleared, initialized,
                   stats, stack, jobs, events, ready, control_flow, panicked, call>>

InitStep ==
    InitOf({"crates"}, MaxElapses,
           {[bodies |-> bodies, timestamp |-> 0] : bodies \in StepBodies})

NextStep ==
    \/ StepTick
    \/ StepWith
    \/ ComputeAccels

SpecStep == InitStep /\ [][NextStep]_vars

----------------------------------------------------------------------------
(* Physics::advance_to called on its own, with any target *)

\* The targets of a call, as what they add to the clock the call is entered
\* with: earlier than the clock, on it, less than a tick ahead, whole and
\* fractional numbers of ticks ahead, and around PHYSICS_MAX_BEHIND_TIME.
TargetOffsets ==
    {-3, 0, 1, PHYSICS_DELTA_TIME, 2 * PHYSICS_DELTA_TIME + 1,
     PHYSICS_MAX_BEHIND_TIME - 1, PHYSICS_MAX_BEHIND_TIME,
     PHYSICS_MAX_BEHIND_TIME + 1}

\* PhysicsSystem::start, native arm, with a target of the caller's choice
\* (elapses counts the calls).
AdvanceTo ==
    /\ Dispatching
    /\ target_arch = "native"
    /\ elapses < MaxElapses
    /\ elapses' = elapses + 1
    /\ \E offset \in TargetOffsets : start_native(physics.timestamp + offset)
    /\ op' = "advance_to"
    /\ UNCHANGED <<graphics, builder, step, render, source, target_arch, now,
                   last_begun_main_events_cleared, initialized, events, ready,
                   panicked>>

InitAdvance == InitOf({"crates"}, 0, InitialPhysics) /\ target_arch = "native"

NextAdvance ==
    \/ AdvanceTo
    \/ NativeAdvanceTick
    \/ NativeAdvanceReturn

SpecAdvance == InitAdvance /\ [][NextAdvance]_vars

----------------------------------------------------------------------------
(* crates/marble-gravity/src/graphics.rs: the render-time slot of          *)
(* Graphics::render.  graphics.pending counts the closures given to        *)
(* on_submitted_work_done that have not run; render times are nanoseconds. *)

\* How many frames one behaviour submits.
MaxFrames == 4

\* FRAME_TIME_HISTORY_COUNT is 30 in the source.
FRAME_TIME_HISTORY_COUNT == 2

\* What Instant::now().checked_duration_since(now_pre_render) is when the
\* closure runs; instant::Instant is as coarse as the platform's clock, so
\* that zero is among the values.
RenderTimes == {0, 1, 2}

\* AtomicU64::compare_exchange: what it returns and what the slot holds after.
compare_exchange(slot, current, new) ==
    IF slot = current THEN [ok |-> TRUE, slot |-> new]
    ELSE [ok |-> FALSE, slot |-> slot]

\* A loop that never waits.
must_wait_never(render_time) == FALSE

\* The loop of render (lines 288-300): `if render_time == 0`.
must_wait(render_time) == render_time = 0

\* The closure given to on_submitted_work_done (lines 304-312) runs with
\* the render time it measures.
work_done(render_time) ==
    LET r == compare_exchange(graphics.this_frame_render_time_nanos_or_zero,
                              0, render_time)
    IN /\ graphics' = [graphics EXCEPT !.this_frame_render_time_nanos_or_zero = r.slot,
                                       !.pending = @ - 1]
       /\ panicked' = ~r.ok

\* fps_recent_frame_and_render_time after lines 324-328.
push_render_time(history, render_time) ==
    LET kept == IF Len(history) > FRAME_TIME_HISTORY_COUNT
                THEN SubSeq(history, Len(history) - FRAME_TIME_HISTORY_COUNT + 1,
                            Len(history))
                ELSE history
    IN Append(kept, render_time)

\* Event::RedrawRequested: Graphics::render is entered and reaches its loop.
RenderEnter ==
    /\ Dispatching
    /\ ~graphics.rendering
    /\ graphics.frame_number < MaxFrames
    /\ graphics' = [graphics EXCEPT !.rendering = TRUE]
    /\ op' = "redraw"
    /\ UNCHANGED <<builder, step, render, sequence, source, target_arch, now,
                   elapses, physics, currently_running,
                   last_begun_main_events_cleared, initialized, stats, stack,
                   jobs, events, ready, control_flow, panicked, call>>

\* The loop finds the slot 0: device.poll(Maintain::Wait).  On native it
\* blocks until the submitted work is done and runs its closure; on the web
\* it does nothing, the closure waits for the event loop, and the loop goes
\* round.
RenderPoll ==
    /\ Running
    /\ graphics.rendering
    /\ must_wait(graphics.this_frame_render_time_nanos_or_zero)
    /\ target_arch = "native"
    /\ graphics.pending > 0
    /\ \E render_time \in RenderTimes : work_done(render_time)
    /\ UNCHANGED <<builder, step, render, sequence, source, target_arch, now,
                   elapses, physics, currently_running,
                   last_begun_main_events_cleared, initialized, stats, stack,
                   jobs, events, ready, control_flow, call, op>>

\* The loop finds the slot non-zero and takes it back to 0 (lines 296-299);
\* the frame is submitted with its closure (lines 301-314), the render time
\* taken is recorded (lines 319-328) and render returns.
RenderSubmit ==
    /\ Running
    /\ graphics.rendering
    /\ ~must_wait(graphics.this_frame_render_time_nanos_or_zero)
    /\ LET render_time == graphics.this_frame_render_time_nanos_or_zero
           r == compare_exchange(graphics.this_frame_render_time_nanos_or_zero,
                                 render_time, 0)
       IN /\ graphics' =
               [this_frame_render_time_nanos_or_zero |-> r.slot,
                fps_recent_frame_and_render_time |->
                    push_render_time(graphics.fps_recent_frame_and_render_time,
                                     render_time),
                rendering |-> FALSE,
                pending |-> graphics.pending + 1,
                frame_number |-> graphics.frame_number + 1]
          /\ panicked' = ~r.ok
    /\ UNCHANGED <<builder, step, render, sequence, source, target_arch, now,
                   elapses, physics, currently_running,
                   last_begun_main_events_cleared, initialized, stats, stack,
                   jobs, events, ready, control_flow, call, op>>

\* The submitted work is done while the control thread is outside render:
\* the closure runs from the event loop (web), or from the device.poll of
\* get_recent_avg_frame_and_render_time (line 160).
WorkDone ==
    /\ Dispatching
    /\ ~graphics.rendering
    /\ graphics.pending > 0
    /\ \E render_time \in RenderTimes : work_done(render_time)
    /\ UNCHANGED <<builder, step, render, sequence, source, target_arch, now,
                   elapses, physics, currently_running,
                   last_begun_main_events_cleared, initialized, stats, stack,
                   jobs, events, ready, control_flow, call, op>>

NextRender ==
    \/ RenderEnter
    \/ RenderPoll
    \/ RenderSubmit
    \/ WorkDone

SpecRender == Init /\ [][NextRender]_vars

----------------------------------------------------------------------------
(* Properties *)

\* The computations in flight: posted to the worker, or finished with the
\* result not yet handled by the control thread.
InFlight == Len(jobs) + Len(events)

\* A result is handled: UserEvent on wasm32 with the assert! passing.
ResultArrives ==
    UserEvent /\ target_arch = "wasm32" /\ currently_running

\* C1: at most one background computation is in flight in every reachable
\* state, and currently_running tells whether one is: no second submission
\* is made between a submission and the arrival of its result.
C1_AtMostOneInFlight ==
    /\ InFlight <= 1
    /\ currently_running <=> (InFlight = 1)

\* C1: a request was made while the worker held a job, and was not submitted.
C1_Witness ==
    /\ op = "start"
    /\ currently_running
    /\ Len(jobs) = 1
    /\ jobs[1].call.target < last_begun_main_events_cleared

\* C2: an advance request made while currently_running is a no-op: it
\* submits nothing, queues nothing, raises no error (no panic, no exit), and
\* leaves bodies, clock and flag as they are.
C2_BusyIsNoOp ==
    [][(MainEventsClearedStart /\ currently_running)
       => UNCHANGED <<physics, stats, currently_running, jobs, events, stack,
                      panicked, control_flow, call>>]_vars

\* C2: a request was made while a result waited to be handled.
C2_Witness ==
    /\ op = "start"
    /\ currently_running
    /\ Len(events) = 1
    /\ call.target < last_begun_main_events_cleared
    /\ ~panicked

\* C3 as stated: on every platform the request returns before any tick it
\* triggers is carried out, so the control thread never is inside a tick loop
\* that has performed a tick.
C3_NeverBlocks ==
    stack # <<>> => stack[1].elapsed_physics_ticks = 0

\* C3, amended: on wasm32 the request never blocks: the control thread never
\* enters advance_to and the request leaves bodies, clock and statistics as
\* they are.  On native the request runs advance_to on the control thread
\* and returns only once the clock is less than PHYSICS_DELTA_TIME behind the
\* target.
C3_NonBlockingOnWasm32 ==
    /\ [](target_arch = "wasm32" => stack = <<>>)
    /\ [][(MainEventsClearedStart /\ target_arch = "wasm32")
          => UNCHANGED <<physics, stats>>]_vars
    /\ []((target_arch = "native" /\ op = "start" /\ stack = <<>>)
          => /\ call.target = last_begun_main_events_cleared
             /\ call.exit = physics.timestamp
             /\ checked_duration_since(call.target, call.exit) < PHYSICS_DELTA_TIME)

\* C3: wasm32 renders with the last applied state while the worker holds a
\* job whose target is ahead of the live clock.
C3_Witness ==
    /\ target_arch = "wasm32"
    /\ op = "redraw"
    /\ currently_running
    /\ Len(jobs) = 1
    /\ physics.timestamp + PHYSICS_DELTA_TIME <= jobs[1].call.target

\* C4 as stated: each result that arrives advances the clock by exactly one
\* PHYSICS_DELTA_TIME.
C4_OneDeltaPerResult ==
    [][ResultArrives
       => physics'.timestamp = physics.timestamp + PHYSICS_DELTA_TIME]_vars

\* C4, amended: each result that arrives replaces the live physics by the
\* copy the worker ran advance_to on, and the scheduler becomes idle.  The
\* clock advances by elapsed_physics_ticks * PHYSICS_DELTA_TIME (zero, one or
\* many ticks) when the call made no catch-up jump, and to the target when it
\* made one; tick_number grows by elapsed_physics_ticks.
C4_ResultReplacesPhysics ==
    [][ResultArrives
       => /\ physics' = Head(events).physics
          /\ ~currently_running'
          /\ stats'.tick_number = stats.tick_number + call.elapsed_physics_ticks
          /\ call.entry = physics.timestamp
          /\ call.dropped = <<>>
             => physics'.timestamp
                  = physics.timestamp + call.elapsed_physics_ticks * PHYSICS_DELTA_TIME
          /\ call.dropped # <<>> => physics'.timestamp = call.target]_vars

\* C4: a result of three ticks has been applied.
C4_Witness ==
    /\ target_arch = "wasm32"
    /\ op = "handle_event"
    /\ ~panicked
    /\ call.elapsed_physics_ticks = 3
    /\ physics.timestamp = call.entry + 3 * PHYSICS_DELTA_TIME

\* C5 as stated: when a result has been applied and the clock is still behind
\* the target last asked for, a new submission is made as part of handling
\* the result.
C5_ResubmitsImmediately ==
    [][(ResultArrives
        /\ physics'.timestamp + PHYSICS_DELTA_TIME <= last_begun_main_events_cleared)
       => currently_running' /\ jobs' # <<>>]_vars

\* C5, amended: handling a result never submits: the scheduler is idle
\* afterwards with nothing posted, also when the clock is still behind; a
\* job is posted only by a MainEventsCleared that calls start.
C5_NoResubmission ==
    /\ [][ResultArrives => ~currently_running' /\ jobs' = <<>>]_vars
    /\ [][Len(jobs') > Len(jobs) => MainEventsClearedStart]_vars

\* C5: a result was handled, the clock is still behind the instant last asked
\* for, and nothing is posted.
C5_Witness ==
    /\ op = "handle_event"
    /\ ~panicked
    /\ ~currently_running
    /\ jobs = <<>>
    /\ physics.timestamp + PHYSICS_DELTA_TIME <= last_begun_main_events_cleared

\* What the catch-up policy allows a call of advance_to with timestamp ts to
\* have done after c.elapsed_physics_ticks iterations.
FollowsPolicy(c, ts) ==
    LET lag == checked_duration_since(c.target, c.entry)
    IN IF c.elapsed_physics_ticks = 0
       THEN c.dropped = <<>> /\ ts = c.entry
       ELSE IF lag > PHYSICS_MAX_BEHIND_TIME
       THEN /\ c.dropped = <<c.target - PHYSICS_DELTA_TIME - c.entry>>
            /\ c.elapsed_physics_ticks = 1
            /\ ts = c.target
       ELSE /\ c.dropped = <<>>
            /\ ts = c.entry + c.elapsed_physics_ticks * PHYSICS_DELTA_TIME

\* C6: catch-up policy.  A call of advance_to entered more than
\* PHYSICS_MAX_BEHIND_TIME behind its target sets the clock to target -
\* PHYSICS_DELTA_TIME, logs the dropped time once and performs the one tick
\* that is left; a call entered at most the threshold behind logs nothing
\* and moves the clock by its ticks only.
C6_CatchUpPolicy ==
    /\ FollowsPolicy(call, call.exit)
    /\ stack # <<>> => FollowsPolicy(stack[1], physics.timestamp)
    /\ jobs # <<>> => FollowsPolicy(jobs[1].call, jobs[1].physics.timestamp)

\* C6: a call entered one millisecond over the threshold has jumped.
C6_Witness ==
    /\ call.target - call.entry = PHYSICS_MAX_BEHIND_TIME + PHYSICS_DELTA_TIME
    /\ call.dropped = <<PHYSICS_MAX_BEHIND_TIME>>
    /\ call.exit = call.target

\* C7 as stated: with a request to advance by 5000 ms posted and no result
\* returned, the clock has made its one jump.
C7_JumpsWithoutResult ==
    (jobs # <<>> /\ jobs[1].call.target = jobs[1].call.entry + 5 * PHYSICS_MAX_BEHIND_TIME)
    => physics.timestamp = jobs[1].call.target - PHYSICS_DELTA_TIME

\* C7, amended: the call of advance_to that serves a request to advance by
\* 5000 ms makes exactly one jump, logs once and performs one tick, not 5000.
\* On wasm32 that call runs in the worker: as long as no result has been
\* handled the live clock stays where it was when the job was posted.
C7_OneJumpInsideAdvanceTo ==
    /\ call.target = call.entry + 5 * PHYSICS_MAX_BEHIND_TIME
       => /\ call.dropped = <<5 * PHYSICS_MAX_BEHIND_TIME - PHYSICS_DELTA_TIME>>
          /\ call.elapsed_physics_ticks = 1
          /\ call.exit = call.target
    /\ (stack # <<>> /\ stack[1].target = stack[1].entry + 5 * PHYSICS_MAX_BEHIND_TIME)
       => /\ stack[1].elapsed_physics_ticks <= 1
          /\ Len(stack[1].dropped) = stack[1].elapsed_physics_ticks
    /\ (jobs # <<>> /\ jobs[1].call.target = jobs[1].call.entry + 5 * PHYSICS_MAX_BEHIND_TIME)
       => /\ jobs[1].call.elapsed_physics_ticks <= 1
          /\ Len(jobs[1].call.dropped) = jobs[1].call.elapsed_physics_ticks
    /\ jobs # <<>> => physics.timestamp = jobs[1].call.entry

\* C7: the worker has made the jump of a 5000 ms request and the live clock
\* has not moved.
C7_Witness ==
    /\ Len(jobs) = 1
    /\ jobs[1].call.target = jobs[1].call.entry + 5 * PHYSICS_MAX_BEHIND_TIME
    /\ jobs[1].call.elapsed_physics_ticks = 1
    /\ jobs[1].physics.timestamp = jobs[1].call.target
    /\ physics.timestamp = jobs[1].call.entry

\* The event loop is told to exit.
ToldToExit == control_flow = "Poll" /\ control_flow' = "Exit"

C10_AlwaysCompletes ==
    currently_running ~> ~currently_running

\* C10, amended: every submitted computation eventually completes or the
\* process terminates (the event loop is told to exit); nothing else ends
\* it: the flag is cleared by a handled result only, a job leaves the
\* worker only by sending its result, and a result leaves the queue only by
\* being handled.
C10_CompletesOrTerminates ==
    /\ currently_running ~> (~currently_running \/ control_flow = "Exit")
    /\ [][(currently_running /\ ~currently_running') => ResultArrives]_vars
    /\ [][Len(jobs') < Len(jobs) => Len(events') = Len(events) + 1]_vars
    /\ [][Len(events') < Len(events) => UserEvent]_vars

\* C10: the longest computation, a thousand ticks, has completed.
C10_Witness ==
    /\ op = "handle_event"
    /\ ~currently_running
    /\ ~panicked
    /\ call.elapsed_physics_ticks = PHYSICS_MAX_BEHIND_TIME \div PHYSICS_DELTA_TIME
    /\ physics.timestamp = call.exit

\* C11: while a job is outstanding the worker owns its snapshot and the
\* control thread leaves the live physics alone: the live clock is the one
\* the snapshot was taken at, a snapshot not yet worked on equals the live
\* physics, and the live physics changes at the handling of the result
\* only, where it becomes advance_to of what it was (recomputed here for
\* calls of at most six ticks and for calls that jump).
C11_SnapshotOwnership ==
    /\ [](jobs # <<>>
          => /\ physics.timestamp = jobs[1].call.entry
             /\ jobs[1].call.elapsed_physics_ticks = 0 => jobs[1].physics = physics)
    /\ [][(currently_running /\ physics' # physics) => ResultArrives]_vars
    /\ [][(ResultArrives
           /\ LET lag == checked_duration_since(call.target, physics.timestamp)
              IN lag <= 6 * PHYSICS_DELTA_TIME \/ lag > PHYSICS_MAX_BEHIND_TIME)
          => physics' = advance_to(physics, call.target).self]_vars

\* C11: the control thread has rendered while a three-tick result, different
\* from the live physics, waited to be handled.
C11_Witness ==
    /\ op = "redraw"
    /\ Len(events) = 1
    /\ events[1].result.elapsed_physics_ticks = 3
    /\ events[1].physics.timestamp = physics.timestamp + 3 * PHYSICS_DELTA_TIME
    /\ events[1].physics.bodies # physics.bodies

\* The sequence numbers of what is in flight, oldest first.
InFlightSeqs ==
    [i \in 1..Len(events) |-> events[i].seq] \o [i \in 1..Len(jobs) |-> jobs[i].seq]

\* C12: results are applied in the order their jobs were posted: the k-th
\* result handled is that of the k-th job posted, and what is in flight are
\* the jobs posted after the last one handled, oldest first.
C12_ResultsInOrder ==
    /\ [][ResultArrives
          => /\ Head(events).seq = sequence.applied + 1
             /\ sequence'.applied = Head(events).seq]_vars
    /\ [](/\ Len(InFlightSeqs) = sequence.submitted - sequence.applied
          /\ \A i \in 1..Len(InFlightSeqs) : InFlightSeqs[i] = sequence.applied + i)

\* C12: the second result has been handled.
C12_Witness ==
    /\ op = "handle_event"
    /\ ~panicked
    /\ sequence.applied = 2
    /\ sequence.submitted = 2
    /\ physics.timestamp = call.exit

\* What make_sphere_tree was last given, and what it gave back.
N == Len(physics.bodies)

tree == render.tree

Rendered == op = "redraw" /\ render.status # "none"

\* C13: for every N >= 1 make_sphere_tree returns an array of exactly 2N-1
\* nodes; the nodes at indices [0,N) are leaves, with -1 for both children and
\* the radius and colour of the body of the same index; every node at an
\* index k >= N has both child indices strictly below k.
C13_TreeStructure ==
    Rendered =>
        /\ render.status = "returned"
        /\ Len(tree) = 2 * N - 1
        /\ \A i \in 0..(N - 1) :
             /\ tree[i + 1].left = -1
             /\ tree[i + 1].right = -1
             /\ tree[i + 1].radius = halvings(physics.bodies) * physics.bodies[i + 1].radius
             /\ tree[i + 1].color = physics.bodies[i + 1].color
        /\ \A k \in N..(2 * N - 2) :
             /\ tree[k + 1].left \in 0..(k - 1)
             /\ tree[k + 1].right \in 0..(k - 1)

\* The same, of the calls that return.
C13_TreeStructureIfReturned == (Rendered /\ render.status = "returned") => C13_TreeStructure

\* The (zero-based) indices of the nodes no other node has as a child.
Unreferenced ==
    {k \in 0..(Len(tree) - 1) :
        \A j \in (0..(Len(tree) - 1)) \ {k} : tree[j + 1].left # k /\ tree[j + 1].right # k}

\* C14 as stated: in the returned array exactly one node is never referenced
\* as a child of another node, and it is at index 2N-1.
C14_RootAtIndex2N_1 ==
    (Rendered /\ render.status = "returned") => Unreferenced = {2 * N - 1}

\* C14: in the returned array exactly one node is never referenced as a child
\* of another node, and it is the last node, at index 2N-2 (tot_nodes - 1).
C14_RootAtLastIndex ==
    (Rendered /\ render.status = "returned") =>
        /\ Unreferenced = {2 * N - 2}
        /\ 2 * N - 2 = Len(tree) - 1

C14_Witness ==
    /\ Rendered
    /\ render.status = "returned"
    /\ N = 4
    /\ tree[2 * N - 1].left >= N
    /\ tree[2 * N - 1].right >= N

\* The (zero-based) indices of the internal nodes of the returned tree.
Internal == N..(2 * N - 2)

\* node's sphere contains child's sphere.
Contains(node, child) ==
    /\ node.pos # NaN
    /\ child.pos # NaN
    /\ node.radius >= Abs(node.pos - child.pos) + child.radius

\* C15: containment: for every internal node of the returned tree and each of
\* its two children, node.radius >= distance(node.center, child.center) +
\* child.radius, whatever the bodies: also when one of the merged spheres lies
\* inside the other, or when their centres coincide.
C15_Containment ==
    (Rendered /\ render.status = "returned") =>
        \A k \in Internal :
            /\ Contains(tree[k + 1], tree[tree[k + 1].left + 1])
            /\ Contains(tree[k + 1], tree[tree[k + 1].right + 1])

\* The same, of the merges of two spheres with different centres neither of
\* which reaches beyond the other on both sides.
C15_ContainmentWhenApart ==
    (Rendered /\ render.status = "returned") =>
        \A k \in Internal :
            LET a == tree[tree[k + 1].left + 1]
                b == tree[tree[k + 1].right + 1]
            IN (/\ a.pos # NaN
                /\ b.pos # NaN
                /\ a.pos # b.pos
                /\ Abs(a.pos - b.pos) >= Abs(a.radius - b.radius))
               => Contains(tree[k + 1], a) /\ Contains(tree[k + 1], b)

\* C17: calling the Integrator with an acceleration array whose length
\* differs from the body array's fails with a fatal assertion: the call
\* panics, and no body is updated.
C17_MismatchIsFatal ==
    (step.called = "perform_step" /\ Len(step.accels) # Len(step.bodies)) =>
        /\ panicked
        /\ physics.bodies = step.bodies

\* The call with fewer accelerations than bodies returns with some bodies
\* moved and the others left as they were.
C17_PartialUpdate ==
    /\ step.called = "perform_step"
    /\ Len(step.accels) < Len(step.bodies)
    /\ ~panicked
    /\ \E i \in 1..Len(step.accels) : physics.bodies[i] # step.bodies[i]
    /\ \A i \in (Len(step.accels) + 1)..Len(step.bodies) : physics.bodies[i] = step.bodies[i]

\* The radius^3-weighted sums of line 37 and of lines 38-42.
total_mass(bodies) == sum_seq([i \in 1..Len(bodies) |-> Cube(bodies[i].radius)], 1)

weighted_sum(bodies, values) ==
    sum_seq([i \in 1..Len(bodies) |-> Cube(bodies[i].radius) * values[i]], 1)

velocities(bodies) == [i \in 1..Len(bodies) |-> bodies[i].vel]

\* What "approximately" is in integers: every truncated division loses less
\* than one unit of velocity of one body, which weighs less than total_mass.
\* The correction divides once; the field divides twice for each other body.
CorrectionRounding(bodies) == total_mass(bodies) - 1

FieldRounding(bodies) == 2 * (Len(bodies) - 1) * total_mass(bodies)

\* C18: after the momentum correction and one step of the Integrator the
\* radius^3-weighted sum of the bodies' velocities is zero up to rounding,
\* whatever the velocities before the step: after a tick (accelerations of
\* the AccelerationField on the same bodies) the sum itself is, and after any
\* call with one acceleration for each body the sum differs from that of the
\* accelerations times dt by the rounding of the correction only.
C18_MomentumIsZero ==
    /\ step.called = "advance_tick" =>
          Abs(weighted_sum(physics.bodies, velocities(physics.bodies)))
              <= CorrectionRounding(step.bodies) + FieldRounding(step.bodies)
    /\ (step.called \in {"advance_tick", "perform_step"}
        /\ Len(step.accels) = Len(step.bodies)) =>
          Abs(weighted_sum(physics.bodies, velocities(physics.bodies))
              - weighted_sum(step.bodies, step.accels) * dt)
              <= CorrectionRounding(step.bodies)

C18_Witness ==
    /\ step.called = "advance_tick"
    /\ Len(step.bodies) = 3
    /\ Abs(weighted_sum(step.bodies, velocities(step.bodies)))
           > 5 * (CorrectionRounding(step.bodies) + FieldRounding(step.bodies))
    /\ \E i \in 1..3 : new_vel(step.bodies[i]) # step.bodies[i].vel
    /\ \E i \in 1..3 : step.accels[i] # 0
    /\ Abs(weighted_sum(physics.bodies, velocities(physics.bodies)))
           <= CorrectionRounding(step.bodies) + FieldRounding(step.bodies)

\* What of the bodies is no position and no velocity.
Static(bodies) ==
    [i \in 1..Len(bodies) |-> [radius |-> bodies[i].radius, color |-> bodies[i].color]]

\* C19: across any sequence of ticks, catch-up jumps and applied results the
\* number of bodies stays what it was at the start and every radius stays
\* strictly positive; a step changes positions and velocities only, never a
\* radius or a colour, in the physics of the control thread and in every
\* copy that is with the worker or on its way back.
C19_BodiesKept ==
    /\ [](/\ Len(physics.bodies) = BODIES
          /\ \A i \in 1..Len(physics.bodies) : physics.bodies[i].radius > 0
          /\ \A k \in 1..Len(jobs) :
                Static(jobs[k].physics.bodies) = Static(physics.bodies)
          /\ \A k \in 1..Len(events) :
                Static(events[k].physics.bodies) = Static(physics.bodies))
    /\ [][Static(physics'.bodies) = Static(physics.bodies)]_vars

C19_Witness ==
    /\ op = "handle_event"
    /\ ~panicked
    /\ sequence.applied = 2
    /\ call.dropped # <<>>
    /\ call.elapsed_physics_ticks >= 1
    /\ \E seed \in Seeds :
         /\ Static(physics.bodies) = Static(initial_physics(seed).bodies)
         /\ \A i \in 1..BODIES :
              physics.bodies[i].pos # initial_physics(seed).bodies[i].pos

\* bodies without the one at index i.
Others(bodies, i) == SubSeq(bodies, 1, i - 1) \o SubSeq(bodies, i + 1, Len(bodies))

\* C20: for every body i the AccelerationField skips body j exactly when
\* pos_j is identical to pos_i; so body i itself is skipped and contributes
\* nothing, no term is computed with a zero distance (no acceleration is the
\* outcome of a division by zero), and the bodies given are not modified.
C20_SkipsSamePosition ==
    /\ step.called \in {"accels", "advance_tick"} =>
          \A i \in 1..Len(step.bodies) :
              /\ \A j \in 1..Len(step.bodies) :
                    step.skipped[i][j] <=> step.bodies[j].pos = step.bodies[i].pos
              /\ step.skipped[i][i]
              /\ step.accels[i] # NaN
              /\ step.accels[i]
                    = accel_sum(step.bodies[i], Others(step.bodies, i), 1, step.g)
    /\ step.called = "accels" => physics.bodies = step.bodies

C20_Witness ==
    /\ step.called = "accels"
    /\ Len(step.bodies) = 3
    /\ step.skipped[1][2]
    /\ step.bodies[1] # step.bodies[2]
    /\ ~step.skipped[1][3]
    /\ Abs(step.bodies[3].pos - step.bodies[1].pos)
           < step.bodies[3].radius + step.bodies[1].radius
    /\ step.accels[1] # 0
    /\ step.accels[3] # 0
    /\ physics.bodies = step.bodies

\* A pass through the loop of make_sphere_tree that found a nearest neighbour.
Searched ==
    /\ builder.status = "looping"
    /\ builder.num_spheres > 1
    /\ builder' # builder
    /\ builder'.last.kind \in {"push", "merge"}

\* The clusters that are active: the spheres not yet taken.
Active(spheres) == {i \in 0..(Len(spheres) - 1) : spheres[i + 1].is_some}

\* The candidates of the search of the pass being made: the active clusters
\* other than the top of the chain.
Candidates == Active(builder.spheres) \ {builder'.last.current}

\* The candidates of least join cost relative to the top of the chain.
Cheapest ==
    {i \in Candidates :
        \A j \in Candidates : cost(builder'.last.current, i, builder.spheres)
                                   <= cost(builder'.last.current, j, builder.spheres)}

\* C21: in the nearest-neighbour search, when several active clusters have
\* the same minimal join cost relative to the top of the chain, the one of
\* lowest index is chosen.
C21_LowestIndexOnTies ==
    [][Searched =>
         /\ builder'.last.nearest_neighbor \in Cheapest
         /\ \A i \in Cheapest : builder'.last.nearest_neighbor <= i]_vars

\* A search that chose among three clusters of the same, least cost, one
\* pass after a tie already.
C21_Witness ==
    /\ builder.status = "looping"
    /\ builder.last.kind = "push"
    /\ Len(builder.chain) >= 3
    /\ LET current == builder.last.current
           tied == {i \in Active(builder.spheres) \ {current} :
                       cost(current, i, builder.spheres)
                           = cost(current, builder.last.nearest_neighbor, builder.spheres)}
       IN /\ Cardinality(tied) = 3
          /\ \A i \in tied : builder.last.nearest_neighbor <= i

\* A pass through the loop that joins the top two entries of the chain.
Merged == Searched /\ builder'.last.kind = "merge"

\* `a` has no active neighbour of lower join cost than `b`.
IsNearest(a, b, spheres) ==
    \A j \in Active(spheres) \ {a} : cost(a, b, spheres) <= cost(a, j, spheres)

\* C22: whenever two clusters are merged they are mutually nearest at that
\* moment: each is a neighbour of least join cost of the other among all the
\* clusters then active, those created after the deeper one was pushed on the
\* chain included.
C22_MutuallyNearest ==
    [][Merged =>
         LET current == builder'.last.current
             last == builder'.last.nearest_neighbor
         IN /\ IsNearest(current, last, builder.spheres)
            /\ IsNearest(last, current, builder.spheres)]_vars

\* A merge has just been made of the top of the chain with the entry below
\* it, which had a cheaper neighbour among the clusters that were active: a
\* cluster created after it was pushed.
C22_NotMutual ==
    /\ builder.status = "looping"
    /\ builder.last.kind = "merge"
    /\ LET current == builder.last.current
           last == builder.last.nearest_neighbor
           created == Len(builder.spheres) - 1
       IN \E j \in Active(builder.spheres) \ {created} :
              /\ j >= Len(physics.bodies)
              /\ cost(last, j, builder.spheres) < cost(last, current, builder.spheres)

\* make_sphere_tree has been entered and has not yet returned or panicked.
Building == builder.status = "looping"

\* The loop has ended after N - 1 merges with one active cluster, the root.
AllMerged ==
    /\ builder.status = "returned"
    /\ builder.merges = Len(physics.bodies) - 1
    /\ Cardinality(Active(builder.spheres)) = 1
    /\ Active(builder.spheres) = {Len(builder.tree) - 1}

\* The most passes through the loop a call may make: three for each body.
MostPasses == 3 * Len(physics.bodies)

\* C23: for every input of N >= 1 bodies make_sphere_tree terminates: the
\* chain does not grow forever without a merge (the passes through the loop
\* are bounded, and so is the chain), exactly N - 1 merges are made and the
\* loop ends with exactly one active cluster, the root.
C23_Terminates ==
    /\ Building => (builder.passes <= MostPasses /\ Len(builder.chain) <= Len(builder.tree))
    /\ builder.status \notin {"idle", "looping"} => AllMerged

\* The same, of the calls that do not panic: the passes and the chain are
\* bounded, so every call ends, and a call that returns has made N - 1
\* merges and is left with the root.
C23_TerminatesOrPanics ==
    /\ Building => (builder.passes <= MostPasses /\ Len(builder.chain) <= Len(builder.tree))
    /\ builder.status = "returned" => AllMerged

\* The call has panicked with merges still to make.
C23_Panicked ==
    /\ builder.status = "panicked"
    /\ builder.merges < Len(physics.bodies) - 1
    /\ Cardinality(Active(builder.spheres)) > 1

\* C24: at every step of make_sphere_tree the chain is a stack of active
\* cluster indices: no index on it is of a cluster already merged away, and
\* no index is on it twice.
C24_ChainOfActive ==
    builder.status = "looping" =>
        /\ \A k \in 1..Len(builder.chain) : builder.chain[k] \in Active(builder.spheres)
        /\ \A k, l \in 1..Len(builder.chain) :
              builder.chain[k] = builder.chain[l] => k = l

\* What the loop of lines 18-36 does keep: the top of the chain a search is
\* made from is an active cluster, and so is the neighbour found.
C24_TopIsActive ==
    [][Searched =>
         /\ builder'.last.current \in Active(builder.spheres)
         /\ builder'.last.nearest_neighbor \in Active(builder.spheres)
         /\ builder'.last.nearest_neighbor # builder'.last.current]_vars

\* The chain holds a cluster that was merged away, below its top, and the
\* call returns all the same.
C24_StaleOnChain ==
    /\ Building
    /\ Len(builder.chain) >= 2
    /\ builder.chain[1] \notin Active(builder.spheres)
    /\ builder.chain[Len(builder.chain)] \in Active(builder.spheres)

\* How many nodes of `nodes` have the (zero-based) index k as a child.
Parents(nodes, k) ==
    {j \in 0..(Len(nodes) - 1) : nodes[j + 1].left = k \/ nodes[j + 1].right = k}

\* C29: the array returned by make_sphere_tree is a proper binary tree:
\* every internal node has two distinct children, every node other than the
\* root is the child of exactly one node, and every one of the 2N-1 slots has
\* been assigned a finished node exactly once, so that none still holds the
\* placeholder.
C29_ProperBinaryTree ==
    builder.status = "returned" =>
        LET nodes == builder.tree
            leaves == Len(physics.bodies)
            root == Len(nodes) - 1
        IN /\ Len(nodes) = 2 * leaves - 1
           /\ \A k \in leaves..root :
                 /\ nodes[k + 1].left # nodes[k + 1].right
                 /\ nodes[k + 1].left \in 0..root
                 /\ nodes[k + 1].right \in 0..root
           /\ \A k \in 0..(root - 1) : Cardinality(Parents(nodes, k)) = 1
           /\ Parents(nodes, root) = {}
           /\ \A k \in 0..root :
                 /\ builder.writes[k + 1] = 1
                 /\ nodes[k + 1] # placeholder

\* A tree of four bodies returned by a call that made more than 2N passes.
C29_Witness ==
    /\ builder.status = "returned"
    /\ Len(physics.bodies) = 4
    /\ builder.merges = 3
    /\ builder.passes > 2 * Len(physics.bodies)
    /\ \A k \in 1..7 : builder.writes[k] = 1

\* A call of advance_to made on its own has returned.
Returned == op = "advance_to" /\ stack = <<>>

\* C25: a call of advance_to entered with the clock at or before the target
\* returns with target - PHYSICS_DELTA_TIME < clock <= target; a call entered
\* with the target earlier than the clock changes neither bodies nor clock
\* and returns at once, having counted no tick.
C25_WithinOneTickOfTarget ==
    /\ [](Returned
          => /\ call.exit = physics.timestamp
             /\ call.entry <= call.target
                => /\ call.target - PHYSICS_DELTA_TIME < call.exit
                   /\ call.exit <= call.target)
    /\ [][(stack # <<>> /\ stack[1].target < stack[1].entry)
          => /\ physics' = physics
             /\ stack' = <<>>
             /\ call'.elapsed_physics_ticks = 0
             /\ call'.exit = call'.entry]_vars

\* C25: a call entered two and a half ticks before its target has returned
\* with the clock half a tick before the target.
C25_Witness ==
    /\ Returned
    /\ call.target = call.entry + 2 * PHYSICS_DELTA_TIME + 1
    /\ call.exit = call.target - 1
    /\ call.elapsed_physics_ticks = 2

\* C26: advance_to performs floor((target - clock) / PHYSICS_DELTA_TIME)
\* steps when the lag it is entered with is at most PHYSICS_MAX_BEHIND_TIME,
\* and one jump followed by one step when the lag is greater.  Every
\* iteration of its loop performs one step of the Integrator, moves the clock
\* by one PHYSICS_DELTA_TIME and counts one, so elapsed_physics_ticks is the
\* number of steps performed; tick_number changes only when a result is
\* applied, by the elapsed_physics_ticks of that result.
C26_StepCount ==
    /\ [](Returned
          => LET lag == checked_duration_since(call.target, call.entry)
             IN /\ (lag # None /\ lag <= PHYSICS_MAX_BEHIND_TIME)
                   => /\ call.elapsed_physics_ticks = lag \div PHYSICS_DELTA_TIME
                      /\ call.dropped = <<>>
                      /\ call.exit = call.entry
                                     + call.elapsed_physics_ticks * PHYSICS_DELTA_TIME
                /\ lag > PHYSICS_MAX_BEHIND_TIME
                   => /\ call.elapsed_physics_ticks = 1
                      /\ Len(call.dropped) = 1
                      /\ call.exit = call.target)
    /\ [][(stack # <<>> /\ stack' # <<>> /\ stack' # stack)
          => /\ stack'[1].elapsed_physics_ticks = stack[1].elapsed_physics_ticks + 1
             /\ physics'.bodies = advance_tick(physics).bodies
             /\ physics'.timestamp >= physics.timestamp + PHYSICS_DELTA_TIME]_vars
    /\ [][stats'.tick_number
            = stats.tick_number
              + (IF stack # <<>> /\ stack' = <<>>
                 THEN stack[1].elapsed_physics_ticks ELSE 0)]_vars

\* C26: two results have been applied, the first of two steps and the last,
\* of a call entered 999.5 ticks before its target, of 999 steps.
C26_Witness ==
    /\ Returned
    /\ call.target - call.entry = PHYSICS_MAX_BEHIND_TIME - 1
    /\ call.elapsed_physics_ticks = 999
    /\ stats.tick_number = 1001

\* C27: the assert! of handle_event never fails.  A result event is sent only
\* by the future of a posted job, one event for the job, when worker_inner
\* has returned; a result event waits and is delivered only while
\* currently_running is true, and its handling clears the flag, so that no
\* result is delivered to an Idle scheduler and none is delivered twice.
C27_AssertionNeverFails ==
    /\ [](~panicked)
    /\ [](events # <<>> => currently_running /\ Len(events) = 1)
    /\ [](sequence.applied + Len(events) + Len(jobs) = sequence.submitted)
    /\ [][events' # events
          => \/ /\ jobs # <<>>
                /\ jobs' = Tail(jobs)
                /\ events' = Append(events, [physics |-> jobs[1].physics,
                                             result |-> PhysicsResult(jobs[1].call),
                                             seq |-> jobs[1].seq])
             \/ /\ currently_running
                /\ ~currently_running'
                /\ events' = Tail(events)
                /\ sequence'.applied = sequence.applied + 1
                /\ jobs' = jobs]_vars

\* C27: the results of two submissions have been handled, the assertion has
\* passed both times and the scheduler is Idle with nothing in flight.
C27_Witness ==
    /\ op = "handle_event"
    /\ ~panicked
    /\ ~currently_running
    /\ sequence = [submitted |-> 2, applied |-> 2]
    /\ events = <<>>
    /\ jobs = <<>>
    /\ stats.tick_number > 0

\* start is called on wasm32 with the scheduler Idle.
IdleRequest == MainEventsClearedStart /\ target_arch = "wasm32" /\ ~currently_running

\* C28: while pollReady() returns false advance_physics_to returns Err(()):
\* a request made then posts nothing and sends no event, and leaves the
\* scheduler Idle with bodies, clock and statistics as they were.  A request
\* made to an Idle scheduler once pollReady() returns true posts a clone of
\* the live physics with the instant asked for and sets currently_running.
C28_NotReadyIsNoOp ==
    /\ [][(IdleRequest /\ ~ready)
          => /\ ~advance_physics_to(physics, now).ok
             /\ UNCHANGED <<jobs, events, sequence, currently_running, physics,
                            stats, panicked>>]_vars
    /\ [][(IdleRequest /\ ready)
          => /\ advance_physics_to(physics, now).ok
             /\ currently_running'
             /\ Len(jobs') = Len(jobs) + 1
             /\ jobs'[Len(jobs')].physics = physics
             /\ jobs'[Len(jobs')].call.target = now
             /\ sequence'.submitted = sequence.submitted + 1]_vars
    /\ []((target_arch = "wasm32" /\ ~ready)
          => /\ jobs = <<>> /\ events = <<>> /\ ~currently_running
             /\ physics \in InitialPhysics)

\* C28: a request made after the wall clock has moved has just been refused:
\* the worker is not ready, nothing is posted and the scheduler is Idle.
C28_Witness ==
    /\ target_arch = "wasm32"
    /\ op = "start"
    /\ ~ready
    /\ now > 0
    /\ last_begun_main_events_cleared = now
    /\ ~currently_running
    /\ jobs = <<>>
    /\ events = <<>>
    /\ physics.timestamp = 0

slot == graphics.this_frame_render_time_nanos_or_zero

\* C30: no compare_exchange of the render-time slot fails.  A closure that
\* has not run finds the slot 0, and the slot is 0 whenever a closure runs;
\* render submits a frame only by taking a non-zero slot back to 0, with no
\* closure of an earlier frame outstanding, and records the value taken; at
\* most one closure is outstanding.
C30_SlotHandshake ==
    /\ [](~panicked)
    /\ [](graphics.pending <= 1)
    /\ [](graphics.pending = 1 => slot = 0)
    /\ [][graphics'.pending < graphics.pending
          => /\ slot = 0
             /\ slot' \in RenderTimes
             /\ graphics'.frame_number = graphics.frame_number]_vars
    /\ [][graphics'.frame_number # graphics.frame_number
          => /\ slot # 0
             /\ slot' = 0
             /\ graphics.pending = 0
             /\ graphics'.pending = 1
             /\ graphics'.fps_recent_frame_and_render_time[
                    Len(graphics'.fps_recent_frame_and_render_time)] = slot]_vars

\* C30: a third frame has been submitted; the closures of the first two
\* frames stored 2 and 1, and render took both back.
C30_Witness ==
    /\ graphics.frame_number = 3
    /\ graphics.pending = 1
    /\ slot = 0
    /\ graphics.fps_recent_frame_and_render_time = <<INITIAL_RENDER_TIME_NANOS, 2, 1>>
    /\ ~graphics.rendering
    /\ ~panicked
====
